---- MODULE Spec2Model ----
(***************************************************************************)
(* State-machine model of the SQL workbench's coordination layer:          *)
(*   - the zustand store useDatabaseStore (src/src/hooks/use-database.ts), *)
(*   - the useDatabase hook mounted by Header (same file, first part),     *)
(*   - the page component SQLEditor (src/unnamed/part_002),                *)
(*   - the Editor keyboard command (src/unnamed/part_000),                 *)
(*   - the adapter functions initDB/executeQuery/getTables (src/lib/db.ts).*)
(* The database engine (PGlite) is external: every call to it is an        *)
(* in-flight operation that completes later with an outcome chosen by the  *)
(* engine.                                                                 *)
(***************************************************************************)
EXTENDS Integers, Sequences, FiniteSets

(***************************************************************************)
(* Bounds of the model.                                                    *)
(***************************************************************************)
MaxRuns == 2            \* run requests dispatched to the engine (Spec)
MaxInFlight == 2        \* engine operations of the store in flight at once
MaxInitCalls == 3       \* calls of the store's initializeDb
MaxInitFailures == 1    \* initDB rejections
MaxClock == 1           \* largest value Date.now() takes
MaxListOps == 2         \* calls of saveQuery and deleteQuery (SpecLists)
MaxListRuns == 1        \* run requests dispatched to the engine (SpecLists)
MaxLogRuns == 3         \* run requests dispatched to the engine (SpecLog)

(***************************************************************************)
(* Program constants.                                                      *)
(***************************************************************************)
LogLimit == 50          \* queryLogs: .slice(0, 50)
HistoryLimit == 100     \* queryHistory: .slice(0, 100)
SavedLimit == 50        \* savedQueries: .slice(0, 50)
RowsPerPage == 10       \* ResultsTable: const rowsPerPage = 10

MsgSuccess == "Query executed successfully"
MsgFallback == "An error occurred during query execution"
MsgTypeError == "Cannot read properties of undefined (reading 'rows')"

(***************************************************************************)
(* Strings are sequences of characters, so that trim() is computed.        *)
(***************************************************************************)
WhiteSpace == {" ", "\n"}

\* The texts typed into the editor and into the name field: the empty
\* string, a whitespace-only one, a plain one and a padded one.
Texts == {<<>>, <<" ", "\n">>, <<"a">>, <<" ", "a", " ">>}

RECURSIVE TrimStart(_)
TrimStart(s) ==
  IF s # <<>> /\ Head(s) \in WhiteSpace THEN TrimStart(Tail(s)) ELSE s

RECURSIVE TrimEnd(_)
TrimEnd(s) ==
  IF s # <<>> /\ s[Len(s)] \in WhiteSpace
    THEN TrimEnd(SubSeq(s, 1, Len(s) - 1))
    ELSE s

\* String.prototype.trim
Trim(s) == TrimEnd(TrimStart(s))

\* A test that forgets to trim
TrimIsEmptyUntrimmed(s) == s = <<>>

\* !s.trim(): the empty string is the only falsy string
TrimIsEmpty(s) == Trim(s) = <<>>

\* Array.prototype.slice(0, n)
Slice0(s, n) == SubSeq(s, 1, IF Len(s) < n THEN Len(s) ELSE n)

\* Date.now().toString()
NumToString(t) == <<"s", t>>

Min(a, b) == IF a < b THEN a ELSE b

(***************************************************************************)
(* Data returned by the engine.  A row object is a sequence of <<key,      *)
(* value>> pairs in the engine's key order; a result set is a sequence of  *)
(* row objects.                                                            *)
(***************************************************************************)
RowUser1 == << <<"id", "1">>, <<"name", "John">> >>
RowUser2 == << <<"id", "2">>, <<"name", "Jane">> >>
RowOne == << <<"?column?", "1">> >>

Rows2 == <<RowUser1, RowUser2>>
Rows1 == <<RowOne>>

\* One per-statement result of db.exec; hasRows = FALSE is a result whose
\* rows field is undefined.
Stmt(rows) == [hasRows |-> TRUE, rows |-> rows]
StmtNoRows == [hasRows |-> FALSE, rows |-> <<>>]

\* The engine's catalog: the rows of information_schema.columns for the
\* public schema, ordered by table_name, ordinal_position.
CatalogRow(t, c) == << <<"table_name", t>>, <<"column_name", c>> >>
CatalogSeed ==
  <<CatalogRow("products", "id"), CatalogRow("users", "id"), CatalogRow("users", "name")>>
CatalogDropped == <<CatalogRow("products", "id")>>
Catalogs == {CatalogSeed, CatalogDropped}

\* What db.exec(sql) can do: reject with an Error (whose message may be
\* empty), or resolve to a list of per-statement results of any length.
Rejected(m) == [kind |-> "reject", message |-> m, stmts |-> <<>>]
Resolved(stmts) == [kind |-> "resolve", message |-> "", stmts |-> stmts]
ExecOutcomes ==
  {Rejected(""), Rejected("syntax error"),
   Resolved(<<>>), Resolved(<<StmtNoRows>>),
   Resolved(<<Stmt(Rows1)>>), Resolved(<<Stmt(Rows2)>>),
   Resolved(<<Stmt(Rows2), Stmt(<<>>)>>)}

\* What the catalog query can do in catalog cat.
CatalogOutcomes(cat) == {Rejected("connection lost"), Resolved(<<Stmt(cat)>>)}

(***************************************************************************)
(* src/lib/db.ts                                                           *)
(***************************************************************************)
\* What a block of code ends with: a QueryResult it returns, or an Error it
\* throws.
QueryResult(rows, message, status) ==
  [threw |-> FALSE, rows |-> rows, message |-> message, status |-> status]
Thrown(message) ==
  [threw |-> TRUE, rows |-> <<>>, message |-> message, status |-> "thrown"]

\* error.message || "An error occurred during query execution"
MessageOf(error) == IF error.message # "" THEN error.message ELSE MsgFallback

\* The try block of executeQuery for an outcome of db.exec.  A rejection is
\* thrown by the await; an empty list of results makes lastQuery undefined,
\* and reading lastQuery.rows throws a TypeError.
ExecuteQueryTry(o) ==
  IF o.kind = "reject" THEN Thrown(o.message)
  ELSE IF Len(o.stmts) = 0 THEN Thrown(MsgTypeError)
  ELSE LET lastQuery == o.stmts[Len(o.stmts)]
       IN  QueryResult(IF lastQuery.hasRows THEN lastQuery.rows ELSE <<>>,
                       MsgSuccess, "success")

\* The catch block of executeQuery
ExecuteQueryCatch(error) == QueryResult(<<>>, MessageOf(error), "error")

\* An executeQuery whose try block has no catch
DbExecuteQueryUncaught(o) == ExecuteQueryTry(o)

\* executeQuery: what it ends with for an outcome of db.exec
DbExecuteQuery(o) ==
  LET t == ExecuteQueryTry(o)
  IN  IF t.threw THEN ExecuteQueryCatch(t) ELSE t

\* row[key]
Field(row, key) == LET i == CHOOSE j \in 1..Len(row) : row[j][1] = key IN row[i][2]

\* Object.keys(obj) of an object kept as a sequence of <<key, value>> pairs
ObjectKeys(obj) == [i \in 1..Len(obj) |-> obj[i][1]]

HasKey(obj, key) == \E i \in 1..Len(obj) : obj[i][1] = key

\* tableMap[tableName].push(columnName), creating the entry when absent
PushColumn(tableMap, t, c) ==
  IF HasKey(tableMap, t)
    THEN [i \in 1..Len(tableMap) |->
            IF tableMap[i][1] = t THEN <<t, Append(tableMap[i][2], c)>> ELSE tableMap[i]]
    ELSE Append(tableMap, <<t, <<c>>>>)

RECURSIVE BuildTableMap(_, _)
BuildTableMap(rows, tableMap) ==
  IF rows = <<>> THEN tableMap
  ELSE BuildTableMap(Tail(rows),
         PushColumn(tableMap, Field(Head(rows), "table_name"), Field(Head(rows), "column_name")))

\* getTables: the table map for an outcome of the catalog query; its catch
\* block returns {}
GetTables(o) ==
  LET result == DbExecuteQuery(o)
  IN  IF result.threw THEN <<>> ELSE BuildTableMap(result.rows, <<>>)

(***************************************************************************)
(* State.                                                                  *)
(***************************************************************************)
VARIABLES
  \* useDatabaseStore
  dbInstance, isExecuting, dbInitialized, isInitializing,
  tables, tableSchema, queryLogs, results, columns,
  \* the useDatabase hook instance mounted by Header
  hDbRef, hDbInitialized, hIsInitializing, hTables, hTableSchema, hEffectPending,
  \* SQLEditor
  mounted, activeTab, query, queryName, saveDialogOpen, savedQueries, queryHistory,
  \* the Ctrl/Cmd+Enter command registered by the Editor's mount effect
  edCmd,
  \* the engine and the calls in flight
  handles, catalog, storeInits, hookInits, execs, refreshes, hRefreshes,
  \* ResultsTable, mounted while the results tab shows a result set
  tblPage, tblSearchTerm,
  \* the outcome of the last click on Export
  exported,
  \* the answer to the Editor's last request for completion items
  suggested,
  \* Date.now()
  now,
  \* bookkeeping of the environment: calls made and completed so far
  lastReq, lastOp, lastDone, nInitCalls, nInitFailures, nRuns, nDone, nListOps,
  \* initDB calls the hook has made since Header mounted it
  nHookAttempts

storeVars ==
  <<dbInstance, isExecuting, dbInitialized, isInitializing,
    tables, tableSchema, queryLogs, results, columns>>
hookVars == <<hDbRef, hDbInitialized, hIsInitializing, hTables, hTableSchema, hEffectPending>>
pageVars == <<mounted, activeTab, query, queryName, saveDialogOpen, savedQueries, queryHistory>>
engineVars == <<handles, catalog, storeInits, hookInits, execs, refreshes, hRefreshes>>
tableVars == <<tblPage, tblSearchTerm>>
countVars ==
  <<lastReq, lastOp, lastDone, nInitCalls, nInitFailures, nRuns, nDone, nListOps,
    nHookAttempts>>
vars ==
  <<storeVars, hookVars, pageVars, edCmd, tableVars, exported, suggested, engineVars, now,
    countVars>>

NoHandle == 0

\* Export was not clicked yet
NoExport == [status |-> "none", csv |-> <<>>]

\* No completion was requested yet
NoSuggestion == [asked |-> FALSE, text |-> <<>>, provided |-> FALSE, items |-> <<>>]

\* The last run request: whether its text was blank, and what became of it
NoRequest == [blank |-> FALSE, outcome |-> "none"]
WhitespaceOnly(q) == \A i \in 1..Len(q) : q[i] \in WhiteSpace
Request(q, outcome) == [blank |-> WhitespaceOnly(q), outcome |-> outcome]

\* The last operation on the saved-query list, and the id it was about
NoOperation == [op |-> "none", id |-> <<>>]
Operation(op, id) == [op |-> op, id |-> id]

\* The last engine call of the store that completed: the call ("execute" or
\* "refresh"), the engine's outcome, and what runQuery gave its caller
NoCompletion == [op |-> "none", outcome |-> Rejected(""), returned |-> "none"]
Completion(op, outcome, returned) == [op |-> op, outcome |-> outcome, returned |-> returned]

\* The closure the Editor's mount effect hands to addCommand: the values of
\* dbInitialized, readOnly and onExecuteQuery of the render that mounted it.
\* onExecuteQuery is the page's executeQuery of that render, which closes
\* over dbInitialized and queryHistory.
EditorClosure(dbInit, readOnly, hist) ==
  [dbInitialized |-> dbInit, readOnly |-> readOnly, queryHistory |-> hist]
NoEditor == EditorClosure(FALSE, FALSE, <<>>)

\* The state once the store module has been evaluated: create() has built
\* the store and the module's last line has called initializeDb(), which
\* runs up to its await of initDB().
StoreLoaded ==
  /\ dbInstance = NoHandle
  /\ isExecuting = FALSE
  /\ dbInitialized = FALSE
  /\ isInitializing = TRUE
  /\ tables = <<>>
  /\ tableSchema = <<>>
  /\ queryLogs = <<>>
  /\ results = <<>>
  /\ columns = <<>>
  /\ storeInits = 1
  /\ nInitCalls = 1

HookUnmounted ==
  /\ hDbRef = NoHandle
  /\ hDbInitialized = FALSE
  /\ hIsInitializing = FALSE
  /\ hTables = <<>>
  /\ hTableSchema = <<>>
  /\ hEffectPending = FALSE
  /\ hookInits = 0
  /\ hRefreshes = 0

PageUnmounted(saved, history) ==
  /\ mounted = FALSE
  /\ activeTab = "editor"
  /\ query = <<"a">>
  /\ queryName = <<>>
  /\ saveDialogOpen = FALSE
  /\ savedQueries = saved
  /\ queryHistory = history
  /\ edCmd = NoEditor
  /\ tblPage = 1
  /\ tblSearchTerm = <<>>
  /\ exported = NoExport
  /\ suggested = NoSuggestion

Init ==
  /\ StoreLoaded
  /\ HookUnmounted
  /\ PageUnmounted(<<>>, <<>>)
  /\ handles = 0
  /\ catalog = CatalogSeed
  /\ execs = {}
  /\ refreshes = 0
  /\ now = 0
  /\ lastReq = NoRequest
  /\ lastOp = NoOperation
  /\ lastDone = NoCompletion
  /\ nInitFailures = 0
  /\ nRuns = 0
  /\ nDone = 0
  /\ nListOps = 0
  /\ nHookAttempts = 0

(***************************************************************************)
(* useDatabaseStore                                                        *)
(***************************************************************************)
\* A guard that forgets the isInitializing flag
InitializeReturnsEarlyIgnoresFlag(instance, initializing) == instance # NoHandle

\* if (dbInstance || isInitializing) return;
InitializeReturnsEarly(instance, initializing) == instance # NoHandle \/ initializing

\* initializeDb(), up to its await: a second call while one is in progress
\* or after one has succeeded returns at once.
StoreInitializeDb ==
  /\ nInitCalls < MaxInitCalls
  /\ nInitCalls' = nInitCalls + 1
  /\ IF InitializeReturnsEarly(dbInstance, isInitializing)
       THEN UNCHANGED <<isInitializing, storeInits>>
       ELSE /\ isInitializing' = TRUE
            /\ storeInits' = storeInits + 1
  /\ UNCHANGED <<dbInstance, isExecuting, dbInitialized, tables, tableSchema,
                 queryLogs, results, columns>>
  /\ UNCHANGED <<hookVars, pageVars, edCmd, now, tableVars, exported, suggested>>
  /\ UNCHANGED <<handles, catalog, hookInits, execs, refreshes, hRefreshes>>
  /\ UNCHANGED <<lastReq, lastOp, lastDone, nInitFailures, nRuns, nDone, nListOps, nHookAttempts>>

\* initDB() resolves: the handle is stored, refreshTables() is started (it
\* runs up to its await of getTables), and the finally block runs.
StoreInitResolve ==
  /\ storeInits > 0
  /\ storeInits' = storeInits - 1
  /\ handles' = handles + 1
  /\ dbInstance' = handles + 1
  /\ dbInitialized' = TRUE
  /\ refreshes' = refreshes + 1
  /\ isInitializing' = FALSE
  /\ UNCHANGED <<isExecuting, tables, tableSchema, queryLogs, results, columns>>
  /\ UNCHANGED <<hookVars, pageVars, edCmd, now, tableVars, exported, suggested, countVars>>
  /\ UNCHANGED <<catalog, hookInits, execs, hRefreshes>>

\* initDB() rejects: the error is logged and the finally block runs.
StoreInitReject ==
  /\ storeInits > 0
  /\ nInitFailures < MaxInitFailures
  /\ nInitFailures' = nInitFailures + 1
  /\ storeInits' = storeInits - 1
  /\ isInitializing' = FALSE
  /\ UNCHANGED <<dbInstance, isExecuting, dbInitialized, tables, tableSchema,
                 queryLogs, results, columns>>
  /\ UNCHANGED <<hookVars, pageVars, edCmd, now, tableVars, exported, suggested>>
  /\ UNCHANGED <<handles, catalog, hookInits, execs, refreshes, hRefreshes>>
  /\ UNCHANGED <<lastReq, lastOp, lastDone, nInitCalls, nRuns, nDone, nListOps, nHookAttempts>>

\* A status that does not look at the handle
IsInitializedAlways(instance) == TRUE

\* const isInitialized = dbInstance !== null
IsInitialized(instance) == instance # NoHandle

\* The store's checkDbStatus()
StoreCheckDbStatus ==
  /\ dbInitialized' = IsInitialized(dbInstance)
  /\ lastOp' = Operation("checkDbStatus", <<>>)
  /\ UNCHANGED <<dbInstance, isExecuting, isInitializing, tables, tableSchema,
                 queryLogs, results, columns>>
  /\ UNCHANGED <<hookVars, pageVars, edCmd, now, tableVars, exported, suggested, engineVars>>
  /\ UNCHANGED <<lastReq, lastDone, nInitCalls, nInitFailures, nRuns, nDone, nListOps,
                 nHookAttempts>>

\* An engine call may be started only while fewer than MaxInFlight of the
\* store's engine calls are in flight (a bound of the model).
CanDispatch == Cardinality(execs) + refreshes < MaxInFlight

Execution(id, q, caller, hist) ==
  [id |-> id, query |-> q, caller |-> caller, queryHistory |-> hist]

\* A runQuery without the test of the handle
StoreRunQueryWithoutHandleTest(q, caller, hist) ==
  IF TrimIsEmpty(q)
    THEN /\ lastReq' = Request(q, "null: empty query")
         /\ UNCHANGED <<isExecuting, execs, nRuns>>
    ELSE /\ isExecuting' = TRUE
         /\ execs' = execs \cup {Execution(nRuns + 1, q, caller, hist)}
         /\ nRuns' = nRuns + 1
         /\ lastReq' = Request(q, "dispatched")

\* runQuery(query), up to its await of executeQuery.  caller and hist say
\* who awaits the result: the page's executeQuery (with the queryHistory its
\* closure holds) or a direct caller of the store.
\* A runQuery that sets isExecuting before it validates the request
StoreRunQueryFlagFirst(q, caller, hist) ==
  IF dbInstance = NoHandle
    THEN /\ lastReq' = Request(q, "null: no handle")
         /\ isExecuting' = TRUE
         /\ UNCHANGED <<execs, nRuns>>
  ELSE IF TrimIsEmpty(q)
    THEN /\ lastReq' = Request(q, "null: empty query")
         /\ isExecuting' = TRUE
         /\ UNCHANGED <<execs, nRuns>>
    ELSE /\ isExecuting' = TRUE
         /\ execs' = execs \cup {Execution(nRuns + 1, q, caller, hist)}
         /\ nRuns' = nRuns + 1
         /\ lastReq' = Request(q, "dispatched")

\* A runQuery that tests the query text before the handle
StoreRunQueryTextFirst(q, caller, hist) ==
  IF TrimIsEmpty(q)
    THEN /\ lastReq' = Request(q, "null: empty query")
         /\ UNCHANGED <<isExecuting, execs, nRuns>>
  ELSE IF dbInstance = NoHandle
    THEN /\ lastReq' = Request(q, "null: no handle")
         /\ UNCHANGED <<isExecuting, execs, nRuns>>
    ELSE /\ isExecuting' = TRUE
         /\ execs' = execs \cup {Execution(nRuns + 1, q, caller, hist)}
         /\ nRuns' = nRuns + 1
         /\ lastReq' = Request(q, "dispatched")

StoreRunQuery(q, caller, hist) ==
  IF dbInstance = NoHandle
    THEN /\ lastReq' = Request(q, "null: no handle")
         /\ UNCHANGED <<isExecuting, execs, nRuns>>
  ELSE IF TrimIsEmpty(q)
    THEN /\ lastReq' = Request(q, "null: empty query")
         /\ UNCHANGED <<isExecuting, execs, nRuns>>
    ELSE /\ isExecuting' = TRUE
         /\ execs' = execs \cup {Execution(nRuns + 1, q, caller, hist)}
         /\ nRuns' = nRuns + 1
         /\ lastReq' = Request(q, "dispatched")

\* useDatabaseStore.getState().runQuery(q), called directly
RunQuery(q) ==
  /\ CanDispatch
  /\ StoreRunQuery(q, "store", <<>>)
  /\ UNCHANGED <<dbInstance, dbInitialized, isInitializing, tables, tableSchema,
                 queryLogs, results, columns>>
  /\ UNCHANGED <<hookVars, pageVars, edCmd, now, tableVars, exported, suggested>>
  /\ UNCHANGED <<handles, catalog, storeInits, hookInits, refreshes, hRefreshes>>
  /\ UNCHANGED <<lastOp, lastDone, nInitCalls, nInitFailures, nDone, nListOps, nHookAttempts>>

\* The history item the page's executeQuery builds after runQuery returned
HistoryItem(q) == [id |-> NumToString(now), query |-> q, timestamp |-> now]

\* A history that is never sliced
AddToHistoryUnbounded(item, hist) == <<item>> \o hist

\* [newHistoryItem, ...queryHistory].slice(0, 100)
AddToHistory(item, hist) == Slice0(<<item>> \o hist, HistoryLimit)

\* A log that gets the entry from the try block and from the catch block
AddToLogsTwice(newLog, logs) == Slice0(<<newLog, newLog>> \o logs, LogLimit)

\* A log that appends at the end before it slices
AddToLogsAtEnd(newLog, logs) == Slice0(Append(logs, newLog), LogLimit)

\* [newLog, ...state.queryLogs].slice(0, 50)
AddToLogs(newLog, logs) == Slice0(<<newLog>> \o logs, LogLimit)

\* <ResultsTable columns={columns} data={results} /> is rendered inside the
\* content of the results tab, which is mounted while that tab is active,
\* when there are results
TableMounted == mounted /\ activeTab = "results" /\ results # <<>>

\* The state of ResultsTable over a step: kept while it stays mounted,
\* the initial useState values whenever it is mounted anew
RemountTable(before, after) ==
  IF before /\ after
    THEN UNCHANGED tableVars
    ELSE /\ tblPage' = 1
         /\ tblSearchTerm' = <<>>

\* A cache that keeps the old column list when no row came back
CacheColumnsKeepsOld(rows, old) == IF Len(rows) > 0 THEN ObjectKeys(rows[1]) ELSE old

\* columns: Object.keys(result.rows[0]) when there are rows, [] otherwise
CacheColumns(rows, old) == IF Len(rows) > 0 THEN ObjectKeys(rows[1]) ELSE <<>>

\* results: result.rows when there are rows, [] otherwise
CacheResults(rows, old) == IF Len(rows) > 0 THEN rows ELSE <<>>

\* A runQuery that refreshes the schema only after a success
StartsRefreshOnSuccess(instance, result) ==
  instance # NoHandle /\ result.status = "success"

\* get().refreshTables() in runQuery's try block: it is called for every
\* result and starts its catalog query unless the handle is null
StartsRefresh(instance, result) == instance # NoHandle

\* The engine completes execution e with outcome o, leaving the catalog as
\* cat: executeQuery ends, then runQuery's try block runs (or, had
\* executeQuery thrown, its catch block, which logs the error and returns
\* null), then its finally block, and then the continuation of the page's
\* executeQuery when the page is the caller: a null result is reported and
\* nothing else is done, any other result is added to the history.
\* A flag that is cleared on the success path only
IsExecutingAfterSuccessOnly(result, old) ==
  IF result.status = "success" THEN FALSE ELSE old

\* finally { set({ isExecuting: false }) }
IsExecutingAfter(result, old) == FALSE

ExecuteCompletes(e, o, cat) ==
  LET result == DbExecuteQuery(o)
      newLog == [message |-> IF result.threw THEN MessageOf(result) ELSE result.message,
                 status |-> IF result.threw THEN "error" ELSE result.status,
                 timestamp |-> now]
  IN  /\ e \in execs
      /\ execs' = execs \ {e}
      /\ catalog' = cat
      /\ queryLogs' = AddToLogs(newLog, queryLogs)
      /\ IF result.threw
           THEN UNCHANGED <<columns, results, refreshes>>
           ELSE /\ columns' = CacheColumns(result.rows, columns)
                /\ results' = CacheResults(result.rows, results)
                /\ refreshes' = IF StartsRefresh(dbInstance, result)
                                  THEN refreshes + 1 ELSE refreshes
      /\ isExecuting' = IsExecutingAfter(result, isExecuting)
      /\ nDone' = nDone + 1
      /\ lastDone' = Completion("execute", o, IF result.threw THEN "null" ELSE "result")
      /\ IF e.caller = "page" /\ ~result.threw
           THEN /\ queryHistory' = AddToHistory(HistoryItem(e.query), e.queryHistory)
                /\ activeTab' = IF result.status = "success" THEN "results" ELSE activeTab
                /\ edCmd' = IF result.status = "success" THEN NoEditor ELSE edCmd
           ELSE UNCHANGED <<queryHistory, activeTab, edCmd>>
      /\ UNCHANGED <<dbInstance, dbInitialized, isInitializing, tables, tableSchema>>
      /\ UNCHANGED <<hookVars, mounted, query, queryName, saveDialogOpen, savedQueries, now>>
      /\ UNCHANGED <<handles, storeInits, hookInits, hRefreshes>>
      /\ UNCHANGED <<lastReq, lastOp, nInitCalls, nInitFailures, nRuns, nListOps, nHookAttempts>>
      /\ UNCHANGED <<exported, suggested>>
      /\ RemountTable(TableMounted, TableMounted')

\* refreshTables(), after its await: getTables returned the table map for
\* outcome o of the catalog query.  getTables never throws, so the catch
\* block is not reachable.
RefreshCompletes(o) ==
  LET tableList == GetTables(o)
  IN  /\ refreshes > 0
      /\ refreshes' = refreshes - 1
      /\ tables' = ObjectKeys(tableList)
      /\ tableSchema' = tableList
      /\ lastDone' = Completion("refresh", o, "void")
      /\ UNCHANGED <<dbInstance, isExecuting, dbInitialized, isInitializing,
                     queryLogs, results, columns>>
      /\ UNCHANGED <<hookVars, pageVars, edCmd, now, tableVars, exported, suggested>>
      /\ UNCHANGED <<handles, catalog, storeInits, hookInits, execs, hRefreshes>>
      /\ UNCHANGED <<lastReq, lastOp, nInitCalls, nInitFailures, nRuns, nDone, nListOps,
                     nHookAttempts>>

\* setQueryLogs([]), the Clear button of OutputLogs, shown while there are
\* log entries
ClearLogs ==
  /\ mounted
  /\ Len(queryLogs) > 0
  /\ queryLogs' = <<>>
  /\ nDone' = 0
  /\ UNCHANGED <<dbInstance, isExecuting, dbInitialized, isInitializing,
                 tables, tableSchema, results, columns>>
  /\ UNCHANGED <<hookVars, pageVars, edCmd, engineVars, now, tableVars, exported, suggested>>
  /\ UNCHANGED <<lastReq, lastOp, lastDone, nInitCalls, nInitFailures, nRuns, nListOps,
                 nHookAttempts>>

(***************************************************************************)
(* useDatabase, the hook instance of Header                                *)
(***************************************************************************)
\* The effect that calls initializeDb().  It runs after the mount and after
\* every render in which isInitializing changed; its closure holds the
\* isInitializing of that render.  Starting initDB sets isInitializing,
\* which schedules the effect again.
HookInitializeDb ==
  /\ mounted
  /\ hEffectPending
  /\ IF InitializeReturnsEarly(hDbRef, hIsInitializing)
       THEN /\ hEffectPending' = FALSE
            /\ UNCHANGED <<hIsInitializing, hookInits, nHookAttempts>>
       ELSE /\ hIsInitializing' = TRUE
            /\ hookInits' = hookInits + 1
            /\ nHookAttempts' = nHookAttempts + 1
            /\ hEffectPending' = TRUE
  /\ UNCHANGED <<hDbRef, hDbInitialized, hTables, hTableSchema>>
  /\ UNCHANGED <<storeVars, pageVars, edCmd, now, tableVars, exported, suggested>>
  /\ UNCHANGED <<lastReq, lastOp, lastDone, nInitCalls, nInitFailures, nRuns, nDone, nListOps>>
  /\ UNCHANGED <<handles, catalog, storeInits, execs, refreshes, hRefreshes>>

\* initDB() resolves in the hook: dbRef is set, refreshTables() is started
\* and the finally block clears isInitializing.
HookInitResolve ==
  /\ hookInits > 0
  /\ hookInits' = hookInits - 1
  /\ handles' = handles + 1
  /\ hDbRef' = handles + 1
  /\ hDbInitialized' = TRUE
  /\ hRefreshes' = hRefreshes + 1
  /\ hIsInitializing' = FALSE
  /\ hEffectPending' = TRUE
  /\ UNCHANGED <<hTables, hTableSchema>>
  /\ UNCHANGED <<storeVars, pageVars, edCmd, now, tableVars, exported, suggested, countVars>>
  /\ UNCHANGED <<catalog, storeInits, execs, refreshes>>

\* initDB() rejects in the hook: the finally block clears isInitializing,
\* and the render that follows schedules the effect again.
HookInitReject ==
  /\ hookInits > 0
  /\ nInitFailures < MaxInitFailures
  /\ nInitFailures' = nInitFailures + 1
  /\ hookInits' = hookInits - 1
  /\ hIsInitializing' = FALSE
  /\ hEffectPending' = TRUE
  /\ UNCHANGED <<hDbRef, hDbInitialized, hTables, hTableSchema>>
  /\ UNCHANGED <<storeVars, pageVars, edCmd, now, tableVars, exported, suggested>>
  /\ UNCHANGED <<handles, catalog, storeInits, execs, refreshes, hRefreshes>>
  /\ UNCHANGED <<lastReq, lastOp, lastDone, nInitCalls, nRuns, nDone, nListOps, nHookAttempts>>

\* The hook's refreshTables(), after its await
HookRefreshCompletes(o) ==
  LET tableList == GetTables(o)
  IN  /\ hRefreshes > 0
      /\ hRefreshes' = hRefreshes - 1
      /\ hTables' = ObjectKeys(tableList)
      /\ hTableSchema' = tableList
      /\ UNCHANGED <<hDbRef, hDbInitialized, hIsInitializing, hEffectPending>>
      /\ UNCHANGED <<storeVars, pageVars, edCmd, now, tableVars, exported,
                     suggested, countVars>>
      /\ UNCHANGED <<handles, catalog, storeInits, hookInits, execs, refreshes>>

\* What the hook returns to Header: the stub object while dbRef is null
HeaderDbInitialized == hDbRef # NoHandle /\ hDbInitialized

\* The hook's isExecuting is set only by the hook's own runQuery, which
\* Header never calls.
HeaderIsExecuting == FALSE

\* Header's checkDbStatus(), on its effect and every 3 s; the stub returned
\* while dbRef is null sets nothing.
HeaderCheckDbStatus ==
  /\ mounted
  /\ hDbRef # NoHandle
  /\ hDbInitialized' = (hDbRef # NoHandle)
  /\ UNCHANGED <<hDbRef, hIsInitializing, hTables, hTableSchema, hEffectPending>>
  /\ UNCHANGED <<storeVars, pageVars, edCmd, engineVars, now, tableVars, exported,
                 suggested, countVars>>

(***************************************************************************)
(* SQLEditor, Header's Run button and the Editor's keyboard command        *)
(***************************************************************************)
\* The first render of the page: Header mounts the hook, whose effect is
\* scheduled, and the Editor (the active tab) registers its command.
PageMount ==
  /\ ~mounted
  /\ mounted' = TRUE
  /\ hEffectPending' = TRUE
  /\ edCmd' = EditorClosure(dbInitialized, isExecuting, queryHistory)
  /\ UNCHANGED <<hDbRef, hDbInitialized, hIsInitializing, hTables, hTableSchema>>
  /\ UNCHANGED <<activeTab, query, queryName, saveDialogOpen, savedQueries, queryHistory>>
  /\ UNCHANGED <<storeVars, engineVars, now, tableVars, exported, suggested, countVars>>

\* The page's executeQuery(q) of a render whose closure holds dbInit and
\* hist, up to its await of runQuery.
PageExecuteQuery(q, dbInit, hist) ==
  IF ~dbInit
    THEN /\ lastReq' = Request(q, "not ready")
         /\ UNCHANGED <<isExecuting, execs, nRuns>>
  ELSE IF TrimIsEmpty(q)
    THEN /\ lastReq' = Request(q, "empty")
         /\ UNCHANGED <<isExecuting, execs, nRuns>>
  ELSE StoreRunQuery(q, "page", hist)

\* disabled={!dbInitialized || isExecuting || !query.trim()}
HeaderRunEnabled ==
  ~(~HeaderDbInitialized \/ HeaderIsExecuting \/ TrimIsEmpty(query))

\* A click on Header's Run button: onRunQuery(query) of the current render
HeaderRunClick ==
  /\ mounted
  /\ HeaderRunEnabled
  /\ CanDispatch
  /\ PageExecuteQuery(query, dbInitialized, queryHistory)
  /\ UNCHANGED <<dbInstance, dbInitialized, isInitializing, tables, tableSchema,
                 queryLogs, results, columns>>
  /\ UNCHANGED <<hookVars, pageVars, edCmd, now, tableVars, exported, suggested>>
  /\ UNCHANGED <<handles, catalog, storeInits, hookInits, refreshes, hRefreshes>>
  /\ UNCHANGED <<lastOp, lastDone, nInitCalls, nInitFailures, nDone, nListOps, nHookAttempts>>

\* Ctrl/Cmd+Enter in the editor: the executeQuery callback that the mount
\* effect registered, with the buffer's content.
EditorExecuteQuery ==
  /\ mounted
  /\ activeTab = "editor"
  /\ CanDispatch
  /\ IF edCmd.dbInitialized /\ ~edCmd.readOnly
       THEN PageExecuteQuery(query, edCmd.dbInitialized, edCmd.queryHistory)
       ELSE /\ lastReq' = Request(query, "suppressed")
            /\ UNCHANGED <<isExecuting, execs, nRuns>>
  /\ UNCHANGED <<dbInstance, dbInitialized, isInitializing, tables, tableSchema,
                 queryLogs, results, columns>>
  /\ UNCHANGED <<hookVars, pageVars, edCmd, now, tableVars, exported, suggested>>
  /\ UNCHANGED <<handles, catalog, storeInits, hookInits, refreshes, hRefreshes>>
  /\ UNCHANGED <<lastOp, lastDone, nInitCalls, nInitFailures, nDone, nListOps, nHookAttempts>>

\* Typing in the editor (read-only while isExecuting): onChange -> setQuery
SetQuery(q) ==
  /\ mounted
  /\ activeTab = "editor"
  /\ ~isExecuting
  /\ q # query
  /\ query' = q
  /\ UNCHANGED <<mounted, activeTab, queryName, saveDialogOpen, savedQueries, queryHistory>>
  /\ UNCHANGED <<storeVars, hookVars, edCmd, engineVars, now, tableVars, exported,
                 suggested, countVars>>

\* The tab triggers: the content of the inactive tab is unmounted, so the
\* Editor is mounted anew, and registers its command anew, each time the
\* editor tab is shown.
SetActiveTab(t) ==
  /\ mounted
  /\ t # activeTab
  /\ activeTab' = t
  /\ edCmd' = IF t = "editor"
                THEN EditorClosure(dbInitialized, isExecuting, queryHistory)
                ELSE NoEditor
  /\ UNCHANGED <<mounted, query, queryName, saveDialogOpen, savedQueries, queryHistory>>
  /\ UNCHANGED <<storeVars, hookVars, engineVars, now, countVars>>
  /\ UNCHANGED <<exported, suggested>>
  /\ RemountTable(TableMounted, TableMounted')

\* The closure of the Editor after the page showed the editor tab
ShowEditor ==
  IF activeTab = "editor" THEN edCmd
  ELSE EditorClosure(dbInitialized, isExecuting, queryHistory)

\* loadQuery(savedQueries[i])
LoadQuery(i) ==
  /\ mounted
  /\ i \in 1..Len(savedQueries)
  /\ query' = savedQueries[i].query
  /\ activeTab' = "editor"
  /\ edCmd' = ShowEditor
  /\ UNCHANGED <<mounted, queryName, saveDialogOpen, savedQueries, queryHistory>>
  /\ UNCHANGED <<storeVars, hookVars, engineVars, now, countVars>>
  /\ UNCHANGED <<exported, suggested>>
  /\ RemountTable(TableMounted, TableMounted')

\* loadHistoryQuery(queryHistory[i])
LoadHistoryQuery(i) ==
  /\ mounted
  /\ i \in 1..Len(queryHistory)
  /\ query' = queryHistory[i].query
  /\ activeTab' = "editor"
  /\ edCmd' = ShowEditor
  /\ UNCHANGED <<mounted, queryName, saveDialogOpen, savedQueries, queryHistory>>
  /\ UNCHANGED <<storeVars, hookVars, engineVars, now, countVars>>
  /\ UNCHANGED <<exported, suggested>>
  /\ RemountTable(TableMounted, TableMounted')

\* The Save Query button and the dialog's Cancel button
SetSaveDialogOpen(open) ==
  /\ mounted
  /\ open # saveDialogOpen
  /\ saveDialogOpen' = open
  /\ UNCHANGED <<mounted, activeTab, query, queryName, savedQueries, queryHistory>>
  /\ UNCHANGED <<storeVars, hookVars, edCmd, engineVars, now, tableVars, exported,
                 suggested, countVars>>

\* Typing in the dialog's name field
SetQueryName(n) ==
  /\ mounted
  /\ saveDialogOpen
  /\ n # queryName
  /\ queryName' = n
  /\ UNCHANGED <<mounted, activeTab, query, saveDialogOpen, savedQueries, queryHistory>>
  /\ UNCHANGED <<storeVars, hookVars, edCmd, engineVars, now, tableVars, exported,
                 suggested, countVars>>

SavedQuery(name, q) == [id |-> NumToString(now), name |-> name, query |-> q]

\* [...savedQueries, newSavedQuery].slice(0, 50)
AddToSaved(item, saved) == Slice0(Append(saved, item), SavedLimit)

\* saveQuery(), the dialog's Save button
SaveQuery ==
  /\ mounted
  /\ saveDialogOpen
  /\ nListOps' = nListOps + 1
  /\ IF TrimIsEmpty(queryName)
       THEN /\ lastOp' = Operation("save rejected", NumToString(now))
            /\ UNCHANGED <<savedQueries, saveDialogOpen, queryName>>
       ELSE /\ lastOp' = Operation("save", NumToString(now))
            /\ savedQueries' = AddToSaved(SavedQuery(queryName, query), savedQueries)
            /\ saveDialogOpen' = FALSE
            /\ queryName' = <<>>
  /\ UNCHANGED <<mounted, activeTab, query, queryHistory>>
  /\ UNCHANGED <<storeVars, hookVars, edCmd, engineVars, now, tableVars, exported, suggested>>
  /\ UNCHANGED <<lastReq, lastDone, nInitCalls, nInitFailures, nRuns, nDone, nHookAttempts>>

\* A filter with the test inverted
RemoveByIdInverted(saved, id) == SelectSeq(saved, LAMBDA q : q.id = id)

\* savedQueries?.filter((q) => q.id !== id) || []
RemoveById(saved, id) == SelectSeq(saved, LAMBDA q : q.id # id)

\* deleteQuery(id)
DeleteQuery(id) ==
  /\ mounted
  /\ nListOps' = nListOps + 1
  /\ lastOp' = Operation("delete", id)
  /\ savedQueries' = RemoveById(savedQueries, id)
  /\ UNCHANGED <<mounted, activeTab, query, queryName, saveDialogOpen, queryHistory>>
  /\ UNCHANGED <<storeVars, hookVars, edCmd, engineVars, now, tableVars, exported, suggested>>
  /\ UNCHANGED <<lastReq, lastDone, nInitCalls, nInitFailures, nRuns, nDone, nHookAttempts>>

(***************************************************************************)
(* ResultsTable.  The value of a cell is a number, a string (a sequence of *)
(* characters) or null.                                                    *)
(***************************************************************************)
Num(n) == [type |-> "number", num |-> n, str |-> <<>>]
Str(s) == [type |-> "string", num |-> 0, str |-> s]
Null == [type |-> "null", num |-> 0, str |-> <<>>]

Digits == <<"0", "1", "2", "3", "4", "5", "6", "7", "8", "9">>

\* The decimal digits of a natural number
RECURSIVE NumberToString(_)
NumberToString(n) ==
  IF n < 10 THEN <<Digits[n + 1]>>
  ELSE NumberToString(n \div 10) \o <<Digits[(n % 10) + 1]>>

\* String(value)
StringOf(v) ==
  IF v.type = "number" THEN NumberToString(v.num)
  ELSE IF v.type = "string" THEN v.str
  ELSE <<"n", "u", "l", "l">>

\* toLowerCase() over the letters used
LowerOf(c) == IF c = "A" THEN "a" ELSE IF c = "B" THEN "b" ELSE c
ToLowerCase(s) == [i \in 1..Len(s) |-> LowerOf(s[i])]

\* s.includes(t)
Includes(s, t) == \E i \in 0..(Len(s) - Len(t)) : SubSeq(s, i + 1, i + Len(t)) = t

\* Object.values(row).some((value) =>
\*   String(value).toLowerCase().includes(searchTerm.toLowerCase()))
RowMatches(row, term) ==
  \E i \in 1..Len(row) : Includes(ToLowerCase(StringOf(row[i][2])), ToLowerCase(term))

\* filteredData: the empty search term is falsy and filters nothing
FilteredData(data, term) ==
  IF term # <<>> THEN SelectSeq(data, LAMBDA row : RowMatches(row, term)) ELSE data

\* Math.ceil(a / b)
Ceil(a, b) == IF a % b = 0 THEN a \div b ELSE (a \div b) + 1

\* A page count that rounds down
TotalPagesFloor(filtered) == Len(filtered) \div RowsPerPage

\* totalPages
TotalPages(filtered) == Ceil(Len(filtered), RowsPerPage)

\* Array.prototype.slice(start, end), 0 <= start <= end
ArraySlice(s, start, end) == SubSeq(s, start + 1, Min(end, Len(s)))

\* paginatedData
PaginatedData(filtered, page) ==
  ArraySlice(filtered, (page - 1) * RowsPerPage, page * RowsPerPage)

\* The page numbers of the (at most five) page links
PageLinks(page, totalPages) ==
  {IF totalPages <= 5 THEN i + 1
   ELSE IF page <= 3 THEN i + 1
   ELSE IF page >= totalPages - 2 THEN totalPages - 4 + i
   ELSE page - 2 + i : i \in 0..(Min(5, totalPages) - 1)}

\* Typing in the search field: onChange sets the term and the first page
SetSearchTerm(t) ==
  /\ TableMounted
  /\ t # tblSearchTerm
  /\ tblSearchTerm' = t
  /\ tblPage' = 1
  /\ UNCHANGED <<storeVars, hookVars, pageVars, edCmd, exported,
                 suggested, engineVars, now, countVars>>

\* handlePageChange(newPage), from the previous, next and page links,
\* which are rendered while there is more than one page
HandlePageChange(newPage) ==
  LET totalPages == TotalPages(FilteredData(results, tblSearchTerm))
  IN  /\ TableMounted
      /\ totalPages > 1
      /\ newPage \in {tblPage - 1, tblPage + 1} \cup PageLinks(tblPage, totalPages)
      /\ tblPage' = IF newPage >= 1 /\ newPage <= totalPages THEN newPage ELSE tblPage
      /\ UNCHANGED tblSearchTerm
      /\ UNCHANGED <<storeVars, hookVars, pageVars, edCmd, exported,
                     suggested, engineVars, now, countVars>>

(***************************************************************************)
(* Export.  A text is a sequence of characters; a column name counts as    *)
(* one character.                                                          *)
(***************************************************************************)
\* The escape of a character inside a JSON string
JsonEscape(c) ==
  IF c = "\"" THEN <<"\\", "\"">>
  ELSE IF c = "\\" THEN <<"\\", "\\">>
  ELSE <<c>>

RECURSIVE JsonEscapeAll(_)
JsonEscapeAll(s) ==
  IF s = <<>> THEN <<>> ELSE JsonEscape(Head(s)) \o JsonEscapeAll(Tail(s))

\* JSON.stringify(value)
JsonStringify(v) ==
  IF v.type = "number" THEN NumberToString(v.num)
  ELSE IF v.type = "string" THEN <<"\"">> \o JsonEscapeAll(v.str) \o <<"\"">>
  ELSE <<"n", "u", "l", "l">>

\* The values that || replaces by its right operand: null, 0 and ""
Falsy(v) ==
  \/ v.type = "null"
  \/ v.type = "number" /\ v.num = 0
  \/ v.type = "string" /\ v.str = <<>>

\* JSON.stringify(row[col] || "")
CsvCell(v) == JsonStringify(IF Falsy(v) THEN Str(<<>>) ELSE v)

\* Array.prototype.join(sep) of an array of texts
RECURSIVE Join(_, _)
Join(texts, sep) ==
  IF texts = <<>> THEN <<>>
  ELSE IF Len(texts) = 1 THEN texts[1]
  ELSE texts[1] \o <<sep>> \o Join(Tail(texts), sep)

\* [columns.join(","), ...results.map((row) =>
\*    columns.map((col) => JSON.stringify(row[col] || "")).join(","))].join("\n")
CsvOf(cols, rows) ==
  Join(<<Join([i \in 1..Len(cols) |-> <<cols[i]>>], ",")>>
         \o [r \in 1..Len(rows) |->
               Join([i \in 1..Len(cols) |-> CsvCell(Field(rows[r], cols[i]))], ",")],
       "\n")

\* exportResults(), from the Export button, which is rendered while the
\* results tab shows a result set
ExportResults ==
  /\ mounted
  /\ activeTab = "results"
  /\ results # <<>>
  /\ exported' = IF Len(results) = 0
                   THEN [status |-> "rejected", csv |-> <<>>]
                   ELSE [status |-> "downloaded", csv |-> CsvOf(columns, results)]
  /\ UNCHANGED <<storeVars, hookVars, pageVars, edCmd, tableVars, suggested>>
  /\ UNCHANGED <<engineVars, now, countVars>>

(***************************************************************************)
(* The Editor's completion item provider.  The text before the cursor is   *)
(* a sequence of tokens: a word (a maximal run of word characters), ".",   *)
(* " " or a line break.                                                    *)
(***************************************************************************)
Keywords ==
  <<"SELECT", "FROM", "WHERE", "JOIN", "LEFT JOIN", "RIGHT JOIN", "INNER JOIN",
    "GROUP BY", "ORDER BY", "HAVING", "LIMIT", "OFFSET", "INSERT INTO", "VALUES",
    "UPDATE", "SET", "DELETE FROM", "CREATE TABLE", "ALTER TABLE", "DROP TABLE">>

\* \w+ matches a word token, \s a blank or a line break
IsWord(token) == token \notin {".", " ", "\n"}
IsSpace(token) == token \in {" ", "\n"}

\* The text without the white space that \s*$ consumes
RECURSIVE DropTrailingSpace(_)
DropTrailingSpace(text) ==
  IF text # <<>> /\ IsSpace(text[Len(text)])
    THEN DropTrailingSpace(SubSeq(text, 1, Len(text) - 1))
    ELSE text

\* textUntilPosition.match(/(\w+)\.\s*$/): the captured word in a sequence of
\* one element, or the empty sequence for null
TableNameDotMatch(text) ==
  LET t == DropTrailingSpace(text)
  IN  IF Len(t) >= 2 /\ t[Len(t)] = "." /\ IsWord(t[Len(t) - 1])
        THEN <<t[Len(t) - 1]>>
        ELSE <<>>

Suggestion(label, kind) == [label |-> label, kind |-> kind]

\* provideCompletionItems of a provider whose closure holds schema
ProvideCompletionItems(schema, text) ==
  LET tableNameDotMatch == TableNameDotMatch(text)
  IN  IF tableNameDotMatch # <<>> /\ HasKey(schema, tableNameDotMatch[1])
        THEN LET cols == Field(schema, tableNameDotMatch[1])
             IN  [i \in 1..Len(cols) |-> Suggestion(cols[i], "Field")]
        ELSE [i \in 1..Len(Keywords) |-> Suggestion(Keywords[i], "Keyword")]
               \o [i \in 1..Len(schema) |-> Suggestion(schema[i][1], "Class")]

\* if (Object.keys(tableSchema).length === 0) return: the effect registers
\* a provider only for a schema with at least one table
ProviderRegistered(schema) == Len(ObjectKeys(schema)) # 0

\* The editor asks for completion items with text before the cursor.  The
\* effect with dependency [tableSchema] has disposed the provider of every
\* earlier schema and registered the one of the current render.
RequestCompletion(text) ==
  /\ mounted
  /\ activeTab = "editor"
  /\ suggested' = IF ProviderRegistered(tableSchema)
                    THEN [asked |-> TRUE, text |-> text, provided |-> TRUE,
                          items |-> ProvideCompletionItems(tableSchema, text)]
                    ELSE [asked |-> TRUE, text |-> text, provided |-> FALSE, items |-> <<>>]
  /\ UNCHANGED <<storeVars, hookVars, pageVars, edCmd, tableVars, exported>>
  /\ UNCHANGED <<engineVars, now, countVars>>

\* Time passes
Tick ==
  /\ now < MaxClock
  /\ now' = now + 1
  /\ UNCHANGED <<storeVars, hookVars, pageVars, edCmd, tableVars, exported,
                 suggested, engineVars, countVars>>

(***************************************************************************)
(* Spec: the application from the moment the store module is loaded.  Both *)
(* coordinators initialize, the page mounts, run requests come from the    *)
(* Run button, from the keyboard command and from direct callers of the    *)
(* store, and the engine completes them in any order.  The engine answers  *)
(* a query with an error or with one row, leaves the catalog as it is and  *)
(* answers every catalog query.                                            *)
(***************************************************************************)
RunOutcomes == {Rejected("syntax error"), Resolved(<<Stmt(Rows1)>>)}

Next ==
  \/ StoreInitResolve
  \/ PageMount
  \/ HookInitializeDb
  \/ HookInitResolve
  \/ nRuns < MaxRuns /\ \E q \in {<<>>, <<" ", "\n">>, <<"a">>} : RunQuery(q)
  \/ nRuns < MaxRuns /\ HeaderRunClick
  \/ nRuns < MaxRuns /\ EditorExecuteQuery
  \/ \E e \in execs, o \in RunOutcomes : ExecuteCompletes(e, o, catalog)
  \/ RefreshCompletes(Resolved(<<Stmt(catalog)>>))
  \/ ClearLogs
  \/ \E q \in {<<" ", "\n">>, <<" ", "a", " ">>} : SetQuery(q)
  \/ \E t \in {"editor", "results"} : SetActiveTab(t)
  \/ \E i \in 1..Len(queryHistory) : LoadHistoryQuery(i)

Spec == Init /\ [][Next]_vars

(***************************************************************************)
(* SpecInit: initialization of the two coordinators, with failures of      *)
(* initDB and repeated calls of the store's initializeDb, interleaved with *)
(* the store's checkDbStatus, its refreshes and runQuery calls.            *)
(***************************************************************************)
NextInit ==
  \/ StoreInitializeDb
  \/ StoreInitResolve
  \/ StoreInitReject
  \/ PageMount
  \/ HookInitializeDb
  \/ HookInitResolve
  \/ HookInitReject
  \/ \E o \in CatalogOutcomes(catalog) : HookRefreshCompletes(o)
  \/ \E o \in CatalogOutcomes(catalog) : RefreshCompletes(o)
  \/ HeaderCheckDbStatus
  \/ StoreCheckDbStatus
  \/ nRuns < MaxRuns /\ RunQuery(<<"a">>)
  \/ \E e \in execs, o \in RunOutcomes : ExecuteCompletes(e, o, catalog)

SpecInit == Init /\ [][NextInit]_vars

(***************************************************************************)
(* Ready: the page is mounted (it mounted while the store was still        *)
(* initializing), both coordinators have their handle and have refreshed   *)
(* their tables, and nothing is in flight.  saved and history are the      *)
(* lists found in local storage, logs the query log so far.                *)
(***************************************************************************)
Ready(saved, history, logs) ==
  /\ dbInstance = 1
  /\ isExecuting = FALSE
  /\ dbInitialized = TRUE
  /\ isInitializing = FALSE
  /\ tables = ObjectKeys(GetTables(Resolved(<<Stmt(CatalogSeed)>>)))
  /\ tableSchema = GetTables(Resolved(<<Stmt(CatalogSeed)>>))
  /\ queryLogs = logs
  /\ results = <<>>
  /\ columns = <<>>
  /\ hDbRef = 2
  /\ hDbInitialized = TRUE
  /\ hIsInitializing = FALSE
  /\ hTables = ObjectKeys(GetTables(Resolved(<<Stmt(CatalogSeed)>>)))
  /\ hTableSchema = GetTables(Resolved(<<Stmt(CatalogSeed)>>))
  /\ hEffectPending = FALSE
  /\ mounted = TRUE
  /\ activeTab = "editor"
  /\ query = <<"a">>
  /\ queryName = <<>>
  /\ saveDialogOpen = FALSE
  /\ savedQueries = saved
  /\ queryHistory = history
  /\ edCmd = EditorClosure(FALSE, FALSE, history)
  /\ tblPage = 1
  /\ tblSearchTerm = <<>>
  /\ exported = NoExport
  /\ suggested = NoSuggestion
  /\ handles = 2
  /\ catalog = CatalogSeed
  /\ storeInits = 0
  /\ hookInits = 0
  /\ execs = {}
  /\ refreshes = 0
  /\ hRefreshes = 0
  /\ now = 0
  /\ lastReq = NoRequest
  /\ lastOp = NoOperation
  /\ lastDone = Completion("refresh", Resolved(<<Stmt(CatalogSeed)>>), "void")
  /\ nInitCalls = 1
  /\ nInitFailures = 0
  /\ nRuns = 0
  /\ nDone = Len(logs)
  /\ nListOps = 0
  /\ nHookAttempts = 1

(***************************************************************************)
(* SpecLog: the query log.  The log starts empty or one entry short of     *)
(* its limit (the log after that many successful executions); executions   *)
(* are started, overlap, complete with any outcome at any time, and the    *)
(* log is cleared.                                                         *)
(***************************************************************************)
LogEntriesAtStart == {0, LogLimit - 1}

SuccessLog(n) ==
  [i \in 1..n |-> [message |-> MsgSuccess, status |-> "success", timestamp |-> 0]]

InitLog == \E n \in LogEntriesAtStart : Ready(<<>>, <<>>, SuccessLog(n))

NextLog ==
  \/ nRuns < MaxLogRuns /\ RunQuery(<<"a">>)
  \/ \E e \in execs, o \in ExecOutcomes : ExecuteCompletes(e, o, catalog)
  \/ \E o \in CatalogOutcomes(catalog) : RefreshCompletes(o)
  \/ ClearLogs
  \/ Tick

SpecLog == InitLog /\ [][NextLog]_vars

(***************************************************************************)
(* SpecLists: the saved-query list and the history list.  Local storage    *)
(* holds lists that are empty or at their limit; the user runs, saves and  *)
(* deletes queries.  The engine answers a run with an error result, for    *)
(* which executeQuery appends to the history as it does for a success.     *)
(***************************************************************************)
\* Saved queries are appended, so the oldest comes first
StoredSaved(n) ==
  [i \in 1..n |-> [id |-> NumToString(i - n - 1), name |-> <<"a">>, query |-> <<"a">>]]

\* History items are prepended, so the newest comes first
StoredHistory(n) ==
  [i \in 1..n |-> [id |-> NumToString(0 - i), query |-> <<"a">>, timestamp |-> 0 - i]]

\* Both lists empty, or both at their limit
ListsAtStart ==
  {<<0, 0>>, <<SavedLimit, HistoryLimit>>}

InitLists ==
  \E n \in ListsAtStart : Ready(StoredSaved(n[1]), StoredHistory(n[2]), <<>>)

\* An id that no saved query has
AbsentId == NumToString(0 - SavedLimit - 1)

\* The ids deleteQuery is called with: those of the first and the last
\* saved query, and one that is not in the list
DeleteIds ==
  {AbsentId} \cup
  (IF savedQueries = <<>> THEN {}
   ELSE {savedQueries[1].id, savedQueries[Len(savedQueries)].id})

Names == {<<" ", "\n">>, <<"a">>}

NextLists ==
  \/ nRuns < MaxListRuns /\ HeaderRunClick
  \/ \E e \in execs : ExecuteCompletes(e, Rejected("syntax error"), catalog)
  \/ RefreshCompletes(Resolved(<<Stmt(catalog)>>))
  \/ SetSaveDialogOpen(TRUE)
  \/ \E n \in Names : SetQueryName(n)
  \/ nListOps < MaxListOps /\ SaveQuery
  \/ nListOps < MaxListOps /\ \E id \in DeleteIds : DeleteQuery(id)
  \/ Tick

SpecLists == InitLists /\ [][NextLists]_vars

(***************************************************************************)
(* SpecSchema: the schema snapshot.  Both coordinators are initialized and *)
(* the page is mounted; executions are started by direct callers and by    *)
(* the Run button, overlap, end with an error or with a row, and may       *)
(* change the catalog whatever their outcome (a failed batch may have run  *)
(* DDL).  The catalog query of a refresh reads the catalog when it         *)
(* completes, and may fail.  The engine settles every call made to it,     *)
(* which is the fairness assumed.                                          *)
(***************************************************************************)
InitSchema == Ready(<<>>, <<>>, <<>>)

EngineExecutes == \E e \in execs, o \in RunOutcomes, cat \in Catalogs : ExecuteCompletes(e, o, cat)

EngineAnswersCatalogQuery == \E o \in CatalogOutcomes(catalog) : RefreshCompletes(o)

NextSchema ==
  \/ nRuns < MaxRuns /\ RunQuery(<<"a">>)
  \/ nRuns < MaxRuns /\ HeaderRunClick
  \/ EngineExecutes
  \/ EngineAnswersCatalogQuery

SpecSchema ==
  /\ InitSchema
  /\ [][NextSchema]_vars
  /\ WF_vars(EngineExecutes)
  /\ WF_vars(EngineAnswersCatalogQuery)

(***************************************************************************)
(* SpecNotReady: initialization that may fail, with run requests.  The     *)
(* store's initializeDb is called once, by the last line of its module,    *)
(* and by nothing else in the program; the hook's effect calls its own     *)
(* again after a failure.  Run requests come from direct callers, the Run  *)
(* button and the keyboard command, before, during and after               *)
(* initialization.                                                         *)
(***************************************************************************)
NextNotReady ==
  \/ StoreInitResolve
  \/ StoreInitReject
  \/ PageMount
  \/ HookInitializeDb
  \/ HookInitResolve
  \/ HookInitReject
  \/ \E o \in CatalogOutcomes(catalog) : HookRefreshCompletes(o)
  \/ \E o \in CatalogOutcomes(catalog) : RefreshCompletes(o)
  \/ HeaderCheckDbStatus
  \/ nRuns < MaxRuns /\ \E q \in {<<"a">>, <<" ", "\n">>} : RunQuery(q)
  \/ nRuns < MaxRuns /\ HeaderRunClick
  \/ nRuns < MaxRuns /\ EditorExecuteQuery
  \/ \E e \in execs, o \in RunOutcomes : ExecuteCompletes(e, o, catalog)

SpecNotReady == Init /\ [][NextNotReady]_vars

(***************************************************************************)
(* SpecTable: the results table.  Both coordinators are initialized and    *)
(* the page is mounted; the Run button starts executions, which return     *)
(* result sets of several sizes or fail; the user switches tabs, types     *)
(* search terms and changes the page.                                      *)
(***************************************************************************)
\* Row i of a result set: a numeric id, a name that is null in every fifth
\* row, and a quantity that is 0 in every third row
TableRow(i) ==
  << <<"id", Num(i)>>,
     <<"name", IF i % 5 = 0 THEN Null
               ELSE IF i % 2 = 1 THEN Str(<<"A", "b">>) ELSE Str(<<"a", "c">>)>>,
     <<"qty", Num(i % 3)>> >>

TableRows(n) == [i \in 1..n |-> TableRow(i)]

\* Result sets that are empty, fill one page exactly, and need two and
\* three pages
TableSizes == {0, RowsPerPage, RowsPerPage + 1, 2 * RowsPerPage + 5}

TableOutcomes ==
  {Rejected("syntax error")} \cup {Resolved(<<Stmt(TableRows(n))>>) : n \in TableSizes}

SearchTerms == {<<>>, <<"a">>, <<"B">>, <<"1">>, <<"x">>}

NextTable ==
  \/ nRuns < MaxRuns /\ HeaderRunClick
  \/ \E e \in execs, o \in TableOutcomes : ExecuteCompletes(e, o, catalog)
  \/ RefreshCompletes(Resolved(<<Stmt(catalog)>>))
  \/ \E t \in {"editor", "results"} : SetActiveTab(t)
  \/ \E t \in SearchTerms : SetSearchTerm(t)
  \/ \E p \in 0..4 : HandlePageChange(p)
  \/ ExportResults

SpecTable == Ready(<<>>, <<>>, <<>>) /\ [][NextTable]_vars

(***************************************************************************)
(* SpecEditor: completion in the editor.  Both coordinators are            *)
(* initialized and the page is mounted; callers of the store run queries   *)
(* that create or drop tables, the catalog queries of the refreshes        *)
(* succeed or fail, the user switches tabs and asks for completion items.  *)
(***************************************************************************)
\* A catalog without tables
CatalogEmpty == <<>>

\* Texts before the cursor: empty, a keyword prefix, a known table and a
\* dot, the same followed by a blank, an unknown word and a dot, a dot
\* alone, and a table and a dot separated by a blank
CompletionTexts ==
  { <<>>, <<"SEL">>, <<"users", ".">>, <<"users", ".", " ">>, <<"orders", ".">>,
    <<".">>, <<"users", " ", ".">>, <<"SELECT", " ", "products", ".">> }

NextEditor ==
  \/ nRuns < MaxRuns /\ RunQuery(<<"a">>)
  \/ \E e \in execs, cat \in Catalogs \cup {CatalogEmpty} :
       ExecuteCompletes(e, Resolved(<<StmtNoRows>>), cat)
  \/ \E o \in CatalogOutcomes(catalog) : RefreshCompletes(o)
  \/ \E t \in {"editor", "results"} : SetActiveTab(t)
  \/ \E text \in CompletionTexts : RequestCompletion(text)

SpecEditor == Ready(<<>>, <<>>, <<>>) /\ [][NextEditor]_vars

(***************************************************************************)
(* Claims.                                                                 *)
(***************************************************************************)

\* C1: a run request whose query text is empty or whitespace-only is never
\* dispatched to the engine: no execution in flight has such a text, and
\* the last request, when its text was blank, was rejected (by the page, by
\* the store, or suppressed by the editor command) without a result.
C1_BlankQueryNeverDispatched ==
  /\ \A e \in execs : ~WhitespaceOnly(e.query)
  /\ lastReq.blank => lastReq.outcome # "dispatched"

\* A whitespace-only query reached the store, which has its handle, and
\* the store returned null for it.
C1_BlankRejectedByStore ==
  /\ lastReq.blank
  /\ lastReq.outcome = "null: empty query"

\* C2: at most one execution issued by the page's run action (the Run
\* button or the keyboard command) is in flight at any time.
C2_AtMostOneExecutionInFlight ==
  Cardinality({e \in execs : e.caller = "page"}) <= 1

\* C3: the engine has created at most one database handle, counting the
\* store and the hook that Header mounts.
C3_AtMostOneHandle == handles <= 1

\* C4: on each coordinator at most one initDB is in flight, none is in
\* flight once the coordinator has its handle, and the handle, once set,
\* is never replaced.
C4_InitializeOnce ==
  /\ [](/\ storeInits <= 1
        /\ hookInits <= 1
        /\ dbInstance # NoHandle => storeInits = 0
        /\ hDbRef # NoHandle => hookInits = 0)
  /\ [][/\ dbInstance # NoHandle => dbInstance' = dbInstance
        /\ hDbRef # NoHandle => hDbRef' = hDbRef]_vars

\* The store's initializeDb was called three times and initDB never failed,
\* so two of the calls came while initDB was in flight or had succeeded.
C4_CalledAgain ==
  /\ nInitCalls >= 3
  /\ nInitFailures = 0
  /\ dbInstance # NoHandle
  /\ hDbRef # NoHandle

\* C5: the log holds one entry per execution completed since it was last
\* cleared, up to its limit: min(n, 50) entries after n completions.
C5_OneLogEntryPerExecution == Len(queryLogs) = Min(nDone, LogLimit)

\* 51 executions have completed, the last while another was in flight
C5_LogFullAfterOverlap ==
  /\ nDone = LogLimit + 1
  /\ execs # {}
  /\ \E i \in 1..Len(queryLogs) : queryLogs[i].status = "error"

\* C6: the log never has more than 50 entries and is ordered newest first;
\* a step that changes it either clears it or puts one entry at its head,
\* keeps the entries before it in their order and, when it was full, drops
\* the last one.
C6_LogBoundedNewestFirst ==
  /\ [](/\ Len(queryLogs) <= LogLimit
        /\ \A i \in 1..Len(queryLogs) : \A j \in i..Len(queryLogs) :
             queryLogs[i].timestamp >= queryLogs[j].timestamp)
  /\ [][queryLogs' # queryLogs =>
          \/ queryLogs' = <<>>
          \/ /\ queryLogs' # <<>>
             /\ Tail(queryLogs') =
                  SubSeq(queryLogs, 1, Min(Len(queryLogs), LogLimit - 1))]_vars

\* The full log took one more entry, newer than the one now last
C6_OldestEvicted ==
  /\ Len(queryLogs) = LogLimit
  /\ nDone > LogLimit
  /\ queryLogs[1].timestamp > queryLogs[LogLimit].timestamp

\* C7: the history list never has more than 100 items and the saved-query
\* list never more than 50.
C7_ListsWithinBounds ==
  /\ Len(queryHistory) <= HistoryLimit
  /\ Len(savedQueries) <= SavedLimit

\* A run was added to a full history and a query was saved to a full list
C7_InsertedAtBounds ==
  /\ Len(queryHistory) = HistoryLimit
  /\ queryHistory[1].timestamp >= 0
  /\ Len(savedQueries) = SavedLimit
  /\ lastOp.op = "save"

\* C8: an insertion keeps the new item and, at the bound, evicts the oldest
\* one: an accepted save leaves the new query last in the saved list and
\* drops the first when 50 were saved; a completed run leaves the new item
\* first in the history and drops the last when 100 were there.
C8_EvictsOldestKeepsNewest ==
  [][/\ (nListOps' = nListOps + 1 /\ lastOp'.op = "save") =>
          /\ savedQueries' # <<>>
          /\ savedQueries'[Len(savedQueries')] = SavedQuery(queryName, query)
          /\ Len(savedQueries) = SavedLimit =>
               SubSeq(savedQueries', 1, SavedLimit - 1) = Tail(savedQueries)
     /\ \A e \in execs \ execs' : e.caller = "page" =>
          /\ queryHistory' # <<>>
          /\ queryHistory'[1] = HistoryItem(e.query)
          /\ Len(queryHistory) = HistoryLimit =>
               Tail(queryHistory') = SubSeq(queryHistory, 1, HistoryLimit - 1)]_vars

\* C9: saveQuery with an empty or whitespace-only name is rejected and
\* leaves the saved-query list as it was.
C9_BlankNameRejected ==
  [][(nListOps' = nListOps + 1 /\ lastOp'.op \in {"save", "save rejected"}
        /\ WhitespaceOnly(queryName)) =>
       /\ lastOp'.op = "save rejected"
       /\ savedQueries' = savedQueries]_vars

\* A whitespace-only name was rejected while the list had room
C9_WhitespaceNameRejected ==
  /\ lastOp.op = "save rejected"
  /\ queryName # <<>>
  /\ Len(savedQueries) < SavedLimit

\* The number of saved queries among the first k whose id is not id
KeptUpTo(saved, id, k) == Cardinality({i \in 1..k : saved[i].id # id})

\* new holds exactly the entries of old whose id is not id, in their order
FilteredById(old, new, id) ==
  /\ Len(new) = KeptUpTo(old, id, Len(old))
  /\ \A k \in 1..Len(old) : old[k].id # id => new[KeptUpTo(old, id, k)] = old[k]

\* C10: deleteQuery(id) leaves exactly the saved queries whose id is not
\* id, in their order; so an id that is not in the list changes nothing,
\* and after a delete no entry has the id, so that deleting it again changes
\* nothing.
C10_DeleteRemovesExactlyId ==
  /\ [](/\ lastOp.op = "delete" =>
             \A i \in 1..Len(savedQueries) : savedQueries[i].id # lastOp.id
        /\ \A id \in DeleteIds :
             RemoveById(RemoveById(savedQueries, id), id) = RemoveById(savedQueries, id))
  /\ [][(nListOps' = nListOps + 1 /\ lastOp'.op = "delete") =>
          /\ FilteredById(savedQueries, savedQueries', lastOp'.id)
          /\ (\A i \in 1..Len(savedQueries) : savedQueries[i].id # lastOp'.id) =>
               savedQueries' = savedQueries]_vars

\* Of 50 saved queries one was deleted by its id, in two operations of
\* which the last was a delete
C10_DeletedFromFullList ==
  /\ lastOp.op = "delete"
  /\ lastOp.id # AbsentId
  /\ nListOps = 2
  /\ Len(savedQueries) = SavedLimit - 1

\* C11: when an execution completes, the cached results and columns are
\* set from the rows it returned: with at least one row, results is that
\* row list and columns the keys of its first row in the engine's order;
\* with no row (so for every failed execution) both are empty.  No other
\* step changes them.
C11_ResultsAndColumnsAgree ==
  [][IF nDone' = nDone + 1
       THEN LET returned == DbExecuteQuery(lastDone'.outcome).rows
            IN  IF Len(returned) > 0
                  THEN /\ results' = returned
                       /\ Len(columns') = Len(returned[1])
                       /\ \A i \in 1..Len(columns') : columns'[i] = returned[1][i][1]
                  ELSE /\ results' = <<>>
                       /\ columns' = <<>>
       ELSE UNCHANGED <<results, columns>>]_vars

\* A failed execution completed after one that returned two rows, and the
\* cache is empty
C11_ClearedAfterFailure ==
  /\ lastDone.op = "execute"
  /\ lastDone.outcome.kind = "reject"
  /\ nRuns = 2
  /\ execs = {}
  /\ results = <<>>
  /\ \E i \in 1..Len(queryLogs) : queryLogs[i].status = "success"

\* C12: every execution that completes, with status success or error,
\* starts a schema refresh, and every refresh started completes, replacing
\* tables and tableSchema by the result of its getTables call.
C12_RefreshFollowsEveryExecution ==
  /\ [][nDone' = nDone + 1 => refreshes' = refreshes + 1]_vars
  /\ [][refreshes' = refreshes - 1 =>
          /\ tableSchema' = GetTables(lastDone'.outcome)
          /\ tables' = ObjectKeys(tableSchema')]_vars
  /\ \A k \in 1..MaxInFlight : (refreshes >= k) ~> (refreshes < k)
  /\ (lastDone.op = "execute") ~> (lastDone.op = "refresh")

\* An execution ended with status error, and the refresh it started has
\* completed
C12_RefreshedAfterError ==
  /\ lastDone.op = "refresh"
  /\ refreshes = 0
  /\ execs = {}
  /\ nDone = 1
  /\ queryLogs[1].status = "error"

\* C13: a schema refresh whose catalog query fails (executeQuery gives an
\* error result) leaves tables and tableSchema as they were before it.
C13_FailedRefreshKeepsSnapshot ==
  [][(/\ refreshes' = refreshes - 1
      /\ DbExecuteQuery(lastDone'.outcome).status = "error") =>
       UNCHANGED <<tables, tableSchema>>]_vars

\* C14: once no execution and no refresh is in flight, tableSchema is the
\* table map of the engine's catalog as the last executed statement left
\* it.
C14_SnapshotMatchesCatalog ==
  (execs = {} /\ refreshes = 0) =>
    tableSchema = BuildTableMap(catalog, <<>>)

\* C15: executeQuery ends with a QueryResult, never with an exception, for
\* every outcome of the engine, so that runQuery gives its caller that
\* result and never null or a rejection; for a rejection of the engine the
\* result logged has status error and the engine's message, or the generic
\* one when that is empty, and the cached rows are empty.
C15_ExecuteQueryNeverThrows ==
  /\ [](\A o \in ExecOutcomes :
          /\ ~DbExecuteQuery(o).threw
          /\ DbExecuteQuery(o).status \in {"success", "error"})
  /\ [][nDone' = nDone + 1 =>
          /\ lastDone'.returned = "result"
          /\ lastDone'.outcome.kind = "reject" =>
               /\ queryLogs'[1].status = "error"
               /\ queryLogs'[1].message =
                    (IF lastDone'.outcome.message = ""
                       THEN "An error occurred during query execution"
                       ELSE lastDone'.outcome.message)
               /\ results' = <<>>]_vars

\* The engine resolved to an empty list of statement results, and the run
\* ended with an error result that was logged
C15_EmptyListGaveErrorResult ==
  /\ lastDone.op = "execute"
  /\ lastDone.outcome = Resolved(<<>>)
  /\ lastDone.returned = "result"
  /\ queryLogs[1].status = "error"

\* C16: a run of the page that completes, with status success or error,
\* puts exactly one item, with the text submitted, at the head of the
\* history and keeps the items that were there (up to the limit), also
\* when runs overlap; no other step changes the history.
C16_OneHistoryItemPerRun ==
  [][/\ \A e \in execs \ execs' : e.caller = "page" =>
          /\ queryHistory' # <<>>
          /\ queryHistory'[1].query = e.query
          /\ Tail(queryHistory') =
               SubSeq(queryHistory, 1, Min(Len(queryHistory), HistoryLimit - 1))
     /\ (\A e \in execs \ execs' : e.caller # "page") =>
          queryHistory' = queryHistory]_vars

\* The store's only initDB call has ended without a handle: it failed
StoreInitFailed == storeInits = 0 /\ dbInstance = NoHandle

\* C17: once the store's initDB has failed, the handle stays null,
\* dbInitialized stays false, isInitializing is false again, and every run
\* request made from then on is rejected (as not ready by the page, with
\* null by the store, or not passed on by the keyboard command) and starts
\* no engine call; a failure of the hook's initDB likewise leaves its
\* handle null and its flags false.
C17_InitFailureLeavesNotReady ==
  /\ [](StoreInitFailed =>
          /\ ~dbInitialized
          /\ ~isInitializing
          /\ execs = {}
          /\ refreshes = 0)
  /\ [][StoreInitFailed =>
          /\ StoreInitFailed'
          /\ lastReq' # lastReq =>
               lastReq'.outcome \in {"not ready", "null: no handle", "suppressed"}]_vars
  /\ [][(hookInits' = hookInits - 1 /\ hDbRef' = NoHandle) =>
          /\ ~hDbInitialized'
          /\ ~hIsInitializing'
          /\ ~HeaderDbInitialized']_vars

\* The store's initDB failed while the hook's succeeded, so that the Run
\* button was enabled, and the run it requested was rejected as not ready
C17_RunRejectedAfterFailure ==
  /\ StoreInitFailed
  /\ nInitFailures = 1
  /\ hDbRef # NoHandle
  /\ lastReq.outcome = "not ready"

\* C18: with N the number of rows that match the search term, the table
\* has ceil(N / 10) pages, page p shows the matching rows at positions
\* (p - 1) * 10 + 1 to min(p * 10, N) in their order, and every change of
\* the search term sets the page to 1.
C18_Pagination ==
  /\ [](TableMounted =>
          LET matching == SelectSeq(results,
                 LAMBDA row : tblSearchTerm = <<>> \/ RowMatches(row, tblSearchTerm))
              N == Len(matching)
              total == TotalPages(FilteredData(results, tblSearchTerm))
              shown == PaginatedData(FilteredData(results, tblSearchTerm), tblPage)
              first == (tblPage - 1) * 10 + 1
              last == Min(tblPage * 10, N)
          IN  /\ total * 10 >= N
              /\ (total - 1) * 10 < N
              /\ Len(shown) = (IF last >= first THEN last - first + 1 ELSE 0)
              /\ \A j \in 1..Len(shown) : shown[j] = matching[first + j - 1])
  /\ [][tblSearchTerm' # tblSearchTerm => tblPage' = 1]_vars

\* The second of two pages of the 20 rows, out of 25, that match "a"
C18_SecondPageOfFiltered ==
  /\ TableMounted
  /\ Len(results) = 25
  /\ tblSearchTerm = <<"a">>
  /\ tblPage = 2
  /\ Len(FilteredData(results, tblSearchTerm)) = 20

\* C19: a press of Ctrl/Cmd+Enter invokes the run action if and only if, at
\* the moment of the press, the database is initialized and readOnly (an
\* execution is in flight) is false.
C19_KeyboardTriggerFollowsCurrentState ==
  [][EditorExecuteQuery =>
       ((lastReq'.outcome # "suppressed") <=> (dbInitialized /\ ~isExecuting))]_vars

\* The text the export is to produce: the column names joined by commas,
\* then one line per row of the JSON serializations of its values
SerializedCsv(cols, rows) ==
  Join(<<Join([i \in 1..Len(cols) |-> <<cols[i]>>], ",")>>
         \o [r \in 1..Len(rows) |->
               Join([i \in 1..Len(cols) |-> JsonStringify(Field(rows[r], cols[i]))], ",")],
       "\n")

\* C20: a click on Export with a non-empty result set downloads the header
\* line of the column names followed by one line per row, each cell the
\* JSON serialization of the row's value for the column; with an empty
\* result set nothing is exported.
C20_CsvSerializesEveryValue ==
  [][ExportResults =>
       IF results = <<>>
         THEN exported'.status = "rejected"
         ELSE exported' = [status |-> "downloaded", csv |-> SerializedCsv(columns, results)]]_vars

\* The entries of a list have pairwise different ids
UniqueIds(list) ==
  \A i, j \in 1..Len(list) : list[i].id = list[j].id => i = j

\* C21: no two saved queries have the same id, and no two history items
\* have the same id.
C21_IdsAreUnique == UniqueIds(savedQueries) /\ UniqueIds(queryHistory)

\* A call of the page's executeQuery or of the store's runQuery that the
\* editor command did not suppress (the first three conjuncts follow from
\* the last one)
RunRequested ==
  /\ nDone' = nDone
  /\ query' = query
  /\ activeTab' = activeTab
  /\ lastReq'.outcome \notin {"none", "suppressed"}
  /\ \/ \E q \in Texts : RunQuery(q)
     \/ HeaderRunClick
     \/ EditorExecuteQuery

\* C22: a run request made while the database is not initialized is
\* rejected as not ready whatever its text, a request with a blank text made
\* while it is initialized is rejected as empty, and neither reaches the
\* engine.
C22_HandleCheckedBeforeText ==
  [][RunRequested =>
       /\ ~dbInitialized =>
            /\ lastReq'.outcome \in {"not ready", "null: no handle"}
            /\ execs' = execs
       /\ dbInitialized /\ lastReq'.blank =>
            /\ lastReq'.outcome \in {"empty", "null: empty query"}
            /\ execs' = execs]_vars

\* A blank request was rejected for the missing handle
C22_BlankRejectedAsNotReady ==
  /\ ~dbInitialized
  /\ dbInstance = NoHandle
  /\ lastReq.blank
  /\ lastReq.outcome = "null: no handle"

\* C23: a run request that validation rejects adds no log entry and leaves
\* the logs, the results, the columns, the table list, the schema, the
\* history and isExecuting as they were.
C23_RejectedRequestChangesNothing ==
  [][RunRequested /\ lastReq'.outcome # "dispatched" =>
       /\ queryLogs' = queryLogs
       /\ results' = results
       /\ columns' = columns
       /\ tables' = tables
       /\ tableSchema' = tableSchema
       /\ queryHistory' = queryHistory
       /\ isExecuting' = isExecuting]_vars

\* A blank request was rejected after an execution left a log entry and a
\* result set
C23_RejectedAfterAnExecution ==
  /\ lastReq.blank
  /\ lastReq.outcome \in {"empty", "null: empty query"}
  /\ queryLogs # <<>>
  /\ results # <<>>
  /\ execs = {}

\* C24: the dispatch of an execution sets isExecuting, every execution in
\* flight completes and isExecuting is then false again, after a success
\* and after a failure, and the store is idle whenever no execution is in
\* flight.
C24_RunningThenIdle ==
  /\ [][nRuns' > nRuns => isExecuting']_vars
  /\ [](execs = {} => ~isExecuting)
  /\ isExecuting ~> ~isExecuting
  /\ (execs # {}) ~> (execs = {} /\ ~isExecuting)

\* Idle again after an execution that the engine rejected
C24_IdleAfterFailure ==
  /\ nDone > 0
  /\ lastDone.op = "execute"
  /\ lastDone.outcome.kind = "reject"
  /\ execs = {}
  /\ ~isExecuting

\* C25: the hook that Header mounts starts at most one initDB call, so a
\* failed attempt is not followed by another one during the same mount,
\* and the store, which is initialized once when its module is loaded,
\* starts at most one as well.
C25_OneAttemptPerMount ==
  /\ [](nHookAttempts <= 1)
  /\ [][storeInits' <= storeInits]_vars

\* The text ends with an identifier and a dot
EndsWithIdentifierDot(text) ==
  /\ Len(text) >= 2
  /\ text[Len(text)] = "."
  /\ text[Len(text) - 1] \notin {".", " ", "\n"}

\* The labels of completion items
Labels(items) == [i \in 1..Len(items) |-> items[i].label]

\* C26: the completion items for a text that ends with the name of a
\* table of the current tableSchema and a dot are the columns of that
\* table, and for a text that does not end with an identifier and a dot
\* they are the keyword list followed by the tables of the current
\* tableSchema, also when that schema is empty.
C26_SuggestionsFollowSchema ==
  [][(\E text \in CompletionTexts : RequestCompletion(text)) =>
       LET text == suggested'.text
           labels == Labels(suggested'.items)
       IN  IF EndsWithIdentifierDot(text)
             THEN HasKey(tableSchema, text[Len(text) - 1]) =>
                    labels = Field(tableSchema, text[Len(text) - 1])
             ELSE labels = Keywords \o ObjectKeys(tableSchema)]_vars

\* C27: isExecuting is true whenever an execution that was dispatched to
\* the engine has not completed yet.
C27_FlagCoversEveryExecution == execs # {} => isExecuting

\* The number of pages of the table as it is shown
ShownPages == TotalPages(FilteredData(results, tblSearchTerm))

\* C28: the page of the results table is at least 1 and at most the
\* number of pages (at most 1 when there is no page), and a request for a
\* page outside 1..totalPages leaves the page as it was.
C28_PageWithinRange ==
  /\ [](TableMounted =>
          /\ 1 <= tblPage
          /\ tblPage <= (IF ShownPages >= 1 THEN ShownPages ELSE 1))
  /\ [][\A p \in 0..4 :
          HandlePageChange(p) /\ (p < 1 \/ p > ShownPages) => tblPage' = tblPage]_vars

\* C29: the execution whose completion leaves no execution in flight, and
\* whose rows are then the cached results, is the one dispatched last.
C29_NewestRequestWins ==
  [][\A e \in execs :
       (execs' = execs \ {e} /\ execs' = {}) =>
         /\ e.id = nRuns
         /\ results' = DbExecuteQuery(lastDone'.outcome).rows]_vars

\* C30: in the store dbInitialized is true exactly when dbInstance holds a
\* handle, and isInitializing is true only while an initDB call is in
\* flight.
C30_FlagsMatchHandle ==
  /\ dbInitialized <=> dbInstance # NoHandle
  /\ isInitializing => storeInits > 0

\* The status was checked after initDB had failed and while a later call of
\* initializeDb had its initDB call in flight
C30_CheckedDuringRetry ==
  /\ lastOp.op = "checkDbStatus"
  /\ nInitFailures > 0
  /\ dbInstance = NoHandle
  /\ isInitializing
  /\ storeInits = 1
====
